---- MODULE Spec2Model ----
(***************************************************************************)
(* A model of src/bot.py: the sliding-window RateLimiter, the admin_only   *)
(* decorator, the handler table that main() registers, and the handlers    *)
(* whose effects on DataManager and on the reply channel the claims read.  *)
(*                                                                         *)
(* Time is the value of datetime.now(), counted in whole seconds and       *)
(* non-decreasing.  A Python dict is a function whose DOMAIN is the set of *)
(* keys present; a defaultdict creates the key on first subscript.         *)
(***************************************************************************)
EXTENDS Integers, Sequences, FiniteSets, TLC

(* ------------------------------ bounds --------------------------------- *)
MaxTime == 4
MaxCalls == 4
MaxLimit == 2
MaxWindow == 2
MaxPieces == 2
MaxEvents == 3
MaxClock == 1
MaxTasks == 3

Users == {1, 2}
Time == 0..MaxTime

VARIABLES
    now,            \* datetime.now()
    max_requests,   \* RateLimiter.max_requests
    time_window,    \* RateLimiter.time_window
    requests,       \* RateLimiter.requests: user id -> list of timestamps
    history,        \* every is_allowed call so far: [user, at, ok]
    lastCall,       \* the most recent is_allowed call: its input list,
                    \* the list after eviction, and its result
    route,          \* an incoming update and the handler the table selects
    ADMIN_IDS,      \* the administrator ids read from the environment
    user_stats,     \* DataManager.user_stats: user id -> counters
    carts,          \* DataManager.carts: user id -> product id -> quantity
    bookings,       \* DataManager.bookings: user id -> list of records
    user_data,      \* context.user_data: user id -> 'booking_service'
    dispatched,     \* number of updates processed so far
    reached,        \* per user: handler bodies run, admin bodies run, and
                    \* the instant of the latest one
    lastEvent,      \* the update processed last and what it caused
    tasks,          \* handler coroutines started so far, each with the await
                    \* it is suspended at
    added,          \* per user: summed price of the units put in the cart
    ordered,        \* per user: summed totals of the orders reported
    lastStep        \* the coroutine resumed last and what that run did

limiterVars == <<max_requests, time_window, requests, history, lastCall>>
asyncVars == <<tasks, added, ordered, lastStep>>
botVars == <<ADMIN_IDS, user_stats, carts, bookings, user_data, dispatched,
             reached, lastEvent, asyncVars>>
vars == <<now, limiterVars, route, botVars>>

(* ------------------------- Python dict helpers ------------------------- *)
EmptyDict == [k \in {} |-> {}]

Put(d, k, v) == [x \in (DOMAIN d) \cup {k} |-> IF x = k THEN v ELSE d[x]]

(* defaultdict(list).__getitem__ read side: the list, empty when absent *)
GetList(d, k) == IF k \in DOMAIN d THEN d[k] ELSE <<>>

(* ------------------------------ RateLimiter ---------------------------- *)
(* variant: the comparison written with <= *)
EvictedKeepsBoundary(user_requests, t, window) ==
    SelectSeq(user_requests, LAMBDA req_time: t - req_time <= window)

(* The list comprehension of is_allowed: keep req_time while               *)
(* now - req_time < timedelta(seconds=time_window).                        *)
Evicted(user_requests, t, window) ==
    SelectSeq(user_requests, LAMBDA req_time: t - req_time < window)

(* variant: the limit test written with > *)
LimitReachedOffByOne(user_requests, limit) == Len(user_requests) > limit

(* len(user_requests) >= self.max_requests *)
LimitReached(user_requests, limit) == Len(user_requests) >= limit

(* variant: the append placed before the limit test *)
is_allowed_records_rejections(user_requests, t, limit, window) ==
    LET kept == Evicted(user_requests, t, window)
    IN  [ok |-> ~LimitReached(kept, limit), kept |-> kept,
         stored |-> Append(kept, t)]

(* variant: the eviction step left out *)
is_allowed_no_eviction(user_requests, t, limit, window) ==
    LET kept == user_requests
    IN  IF LimitReached(kept, limit)
        THEN [ok |-> FALSE, kept |-> kept, stored |-> kept]
        ELSE [ok |-> TRUE, kept |-> kept, stored |-> Append(kept, t)]

(* RateLimiter.is_allowed: the list after eviction (kept), the list left  *)
(* in self.requests[user_id] (stored) and the value returned (ok).        *)
is_allowed(user_requests, t, limit, window) ==
    LET kept == Evicted(user_requests, t, window)
    IN  IF LimitReached(kept, limit)
        THEN [ok |-> FALSE, kept |-> kept, stored |-> kept]
        ELSE [ok |-> TRUE, kept |-> kept, stored |-> Append(kept, t)]

NoRoute == [kind |-> "callback", token |-> "", done |-> FALSE,
            handler |-> "", arg |-> ""]

NoCall == [user |-> 0, at |-> 0, ok |-> FALSE, before |-> <<>>, kept |-> <<>>]

(* RateLimiter.__init__ defaults, used by rate_limiter = RateLimiter() *)
DefaultMaxRequests == 10
DefaultTimeWindow == 60

(* the state of DataManager() and of the application before any update *)
NoEvent == [user |-> 0, kind |-> "", token |-> "", at |-> 0, callback |-> "",
            gate |-> "", body |-> FALSE, raised |-> "",
            replies |-> <<>>, logs |-> <<>>, total |-> -1,
            shown |-> [total_users |-> 0, active_users |-> 0,
                       active_carts |-> 0, total_bookings |-> 0,
                       commands |-> 0, sessions |-> 0]]

NoStep == [task |-> 0, user |-> 0, callback |-> "", from |-> "", pc |-> "",
           before |-> EmptyDict, total |-> -1, product |-> 0, reply |-> ""]

(* no handler coroutine has been started *)
AsyncIdle ==
    /\ tasks = <<>>
    /\ added = [u \in Users |-> 0]
    /\ ordered = [u \in Users |-> 0]
    /\ lastStep = NoStep

DataManagerInit ==
    /\ user_stats = EmptyDict
    /\ carts = EmptyDict
    /\ bookings = EmptyDict

BotIdle ==
    /\ ADMIN_IDS = {}
    /\ DataManagerInit
    /\ user_data = EmptyDict
    /\ dispatched = 0
    /\ reached = [u \in Users |-> [n |-> 0, admin |-> 0, at |-> -1]]
    /\ lastEvent = NoEvent
    /\ AsyncIdle

(* RateLimiter(max_requests, time_window) *)
LimiterInit ==
    /\ max_requests \in 1..MaxLimit
    /\ time_window \in 1..MaxWindow
    /\ requests = EmptyDict
    /\ history = <<>>
    /\ lastCall = NoCall

(* rate_limiter.is_allowed(u) at the current instant *)
IsAllowed(u) ==
    /\ Len(history) < MaxCalls
    /\ LET before == GetList(requests, u)
           r == is_allowed(before, now, max_requests, time_window)
       IN  /\ requests' = Put(requests, u, r.stored)
           /\ history' = Append(history, [user |-> u, at |-> now, ok |-> r.ok])
           /\ lastCall' = [user |-> u, at |-> now, ok |-> r.ok,
                           before |-> before, kept |-> r.kept]
    /\ UNCHANGED <<now, max_requests, time_window, route, botVars>>

(* the clock advances between calls *)
Tick ==
    /\ now < MaxTime
    /\ now' = now + 1
    /\ UNCHANGED <<limiterVars, route, botVars>>

InitLimiter ==
    /\ now = 0
    /\ LimiterInit
    /\ route = NoRoute
    /\ BotIdle

NextLimiter ==
    \/ Tick
    \/ \E u \in Users : IsAllowed(u)

SpecLimiter == InitLimiter /\ [][NextLimiter]_vars

(* --------------------------- strings ----------------------------------- *)
StartsWith(s, p) == Len(s) >= Len(p) /\ SubSeq(s, 1, Len(p)) = p

(* str.replace(old, ""): every non-overlapping occurrence, left to right *)
RECURSIVE Replace(_, _)
Replace(s, old) ==
    IF Len(s) < Len(old) THEN s
    ELSE IF SubSeq(s, 1, Len(old)) = old
         THEN Replace(SubSeq(s, Len(old) + 1, Len(s)), old)
         ELSE SubSeq(s, 1, 1) \o Replace(SubSeq(s, 2, Len(s)), old)

(* ---------------------------- handler table ---------------------------- *)
(* A registered pattern "^lit", "^lit$" or "^lit[cls]$": a literal, an     *)
(* optional one-character class after it, and whether "$" ends it.         *)
Exact(lit, callback, admin) ==
    [kind |-> "callback", lit |-> lit, cls |-> {}, end |-> TRUE,
     callback |-> callback, admin_only |-> admin]

Prefix(lit, callback) ==
    [kind |-> "callback", lit |-> lit, cls |-> {}, end |-> FALSE,
     callback |-> callback, admin_only |-> FALSE]

(* variant: the booking prefix registered as "^book" *)
HandlerTableLoosePrefix ==
    << [kind |-> "command", lit |-> "start", cls |-> {}, end |-> TRUE,
        callback |-> "start_command", admin_only |-> FALSE],
       Exact("main", "main_menu_callback", FALSE),
       Exact("shop", "shop_callback", FALSE),
       Exact("booking", "booking_callback", FALSE),
       Exact("quiz", "quiz_callback", FALSE),
       Exact("currency", "currency_callback", FALSE),
       Exact("about", "about_callback", FALSE),
       Exact("contact", "contact_callback", FALSE),
       Exact("admin", "admin_callback", TRUE),
       Exact("admin_stats", "admin_stats_callback", TRUE),
       Prefix("cat_", "category_callback"),
       Prefix("add_", "add_to_cart_callback"),
       Exact("cart", "view_cart_callback", FALSE),
       Exact("checkout", "checkout_callback", FALSE),
       Exact("clear_cart", "clear_cart_callback", FALSE),
       Prefix("book", "book_service_callback"),
       Prefix("time_", "book_time_callback"),
       Exact("quiz_start", "quiz_start_callback", FALSE),
       [kind |-> "callback", lit |-> "quiz_", cls |-> {"a", "b", "c", "d"},
        end |-> TRUE, callback |-> "quiz_answer_callback",
        admin_only |-> FALSE] >>

(* main(): the add_handler calls, in registration order; admin_only marks *)
(* the two callbacks decorated with @admin_only                            *)
HandlerTable ==
    << [kind |-> "command", lit |-> "start", cls |-> {}, end |-> TRUE,
        callback |-> "start_command", admin_only |-> FALSE],
       Exact("main", "main_menu_callback", FALSE),
       Exact("shop", "shop_callback", FALSE),
       Exact("booking", "booking_callback", FALSE),
       Exact("quiz", "quiz_callback", FALSE),
       Exact("currency", "currency_callback", FALSE),
       Exact("about", "about_callback", FALSE),
       Exact("contact", "contact_callback", FALSE),
       Exact("admin", "admin_callback", TRUE),
       Exact("admin_stats", "admin_stats_callback", TRUE),
       Prefix("cat_", "category_callback"),
       Prefix("add_", "add_to_cart_callback"),
       Exact("cart", "view_cart_callback", FALSE),
       Exact("checkout", "checkout_callback", FALSE),
       Exact("clear_cart", "clear_cart_callback", FALSE),
       Prefix("book_", "book_service_callback"),
       Prefix("time_", "book_time_callback"),
       Exact("quiz_start", "quiz_start_callback", FALSE),
       [kind |-> "callback", lit |-> "quiz_", cls |-> {"a", "b", "c", "d"},
        end |-> TRUE, callback |-> "quiz_answer_callback",
        admin_only |-> FALSE] >>

(* re.match(pattern, data): "$" matches at the end of the string and also  *)
(* just before a newline that ends it.                                     *)
PatternMatches(e, data) ==
    LET n == Len(e.lit)
        m == IF e.cls = {} THEN n ELSE n + 1
    IN  /\ Len(data) >= m
        /\ SubSeq(data, 1, n) = e.lit
        /\ (e.cls # {} => SubSeq(data, m, m) \in e.cls)
        /\ (e.end => \/ Len(data) = m
                     \/ Len(data) = m + 1 /\ SubSeq(data, m + 1, m + 1) = "\n")

(* CommandHandler.check_update compares the command word of the message;   *)
(* CallbackQueryHandler.check_update matches its pattern on query.data.    *)
EntryMatches(e, kind, token) ==
    /\ e.kind = kind
    /\ IF kind = "command" THEN token = e.lit ELSE PatternMatches(e, token)

Matching(table, kind, token) ==
    {i \in DOMAIN table : EntryMatches(table[i], kind, token)}

(* Application.process_update: the first handler of the group that matches; *)
(* 0 when none does and the update is dropped.                              *)
Select(table, kind, token) ==
    LET M == Matching(table, kind, token)
    IN  IF M = {} THEN 0 ELSE CHOOSE i \in M : \A j \in M : i <= j

(* The argument a prefix handler takes from query.data:                    *)
(* query.data.replace("cat_", "") and its three siblings.                  *)
HandlerPrefix(callback) ==
    CASE callback = "category_callback" -> "cat_"
      [] callback = "add_to_cart_callback" -> "add_"
      [] callback = "book_service_callback" -> "book_"
      [] callback = "book_time_callback" -> "time_"
      [] OTHER -> ""

HandlerArg(callback, data) ==
    IF HandlerPrefix(callback) = "" THEN data
    ELSE Replace(data, HandlerPrefix(callback))

(* ------------------------- routing of one update ----------------------- *)
Pieces ==
    {"start", "main", "shop", "booking", "quiz", "currency", "about",
     "contact", "admin", "admin_stats", "cart", "checkout", "clear_cart",
     "quiz_start", "quiz_", "cat_", "add_", "book_", "time_",
     "a", "e", "1", "_", "\n"}

RECURSIVE Concats(_)
Concats(n) ==
    IF n = 1 THEN Pieces
    ELSE LET shorter == Concats(n - 1)
         IN  shorter \cup {s \o p : s \in shorter, p \in Pieces}

Tokens == Concats(MaxPieces)

CallbackOf(table, i) == IF i = 0 THEN "" ELSE table[i].callback

InitRoute ==
    /\ now = 0
    /\ max_requests = DefaultMaxRequests
    /\ time_window = DefaultTimeWindow
    /\ requests = EmptyDict
    /\ history = <<>>
    /\ lastCall = NoCall
    /\ route \in {[NoRoute EXCEPT !.kind = k, !.token = t] :
                      k \in {"command", "callback"}, t \in Tokens}
    /\ BotIdle

(* select the handler for the update and let it parse its argument *)
Route ==
    /\ ~route.done
    /\ LET callback == CallbackOf(HandlerTable,
                                  Select(HandlerTable, route.kind, route.token))
       IN  route' = [route EXCEPT !.done = TRUE,
                                  !.handler = callback,
                                  !.arg = HandlerArg(callback, route.token)]
    /\ UNCHANGED <<now, limiterVars, botVars>>

NextRoute == Route

SpecRoute == InitRoute /\ [][NextRoute]_vars

(* ------------------------------ demo data ------------------------------ *)
PRODUCTS ==
    (1 :> [name |-> "iPhone 15 Pro", price |-> 999]) @@
    (2 :> [name |-> "MacBook Air M3", price |-> 1299]) @@
    (3 :> [name |-> "Python book", price |-> 49]) @@
    (4 :> [name |-> "AirPods Pro", price |-> 249]) @@
    (5 :> [name |-> "Apple Watch", price |-> 399])

SERVICES ==
    (1 :> [name |-> "haircut", price |-> 1500]) @@
    (2 :> [name |-> "manicure", price |-> 2000]) @@
    (3 :> [name |-> "shave", price |-> 800]) @@
    (4 :> [name |-> "spa", price |-> 3500])

(* ------------------------------- int(str) ------------------------------ *)
Whitespace == {" ", "\n", "\t"}

RECURSIVE LStrip(_)
LStrip(s) ==
    IF Len(s) > 0 /\ SubSeq(s, 1, 1) \in Whitespace
    THEN LStrip(SubSeq(s, 2, Len(s))) ELSE s

RECURSIVE RStrip(_)
RStrip(s) ==
    IF Len(s) > 0 /\ SubSeq(s, Len(s), Len(s)) \in Whitespace
    THEN RStrip(SubSeq(s, 1, Len(s) - 1)) ELSE s

IsDigit(c) == \E d \in 0..9 : SubSeq("0123456789", d + 1, d + 1) = c

DigitValue(c) == CHOOSE d \in 0..9 : SubSeq("0123456789", d + 1, d + 1) = c

(* decimal digits, single underscores allowed between two digits *)
WellFormedDigits(s) ==
    /\ Len(s) >= 1
    /\ \A i \in 1..Len(s) :
           \/ IsDigit(SubSeq(s, i, i))
           \/ /\ SubSeq(s, i, i) = "_"
              /\ 1 < i /\ i < Len(s)
              /\ IsDigit(SubSeq(s, i - 1, i - 1))
              /\ IsDigit(SubSeq(s, i + 1, i + 1))

RECURSIVE DigitsValue(_, _)
DigitsValue(s, acc) ==
    IF Len(s) = 0 THEN acc
    ELSE IF SubSeq(s, 1, 1) = "_"
         THEN DigitsValue(SubSeq(s, 2, Len(s)), acc)
         ELSE DigitsValue(SubSeq(s, 2, Len(s)),
                          10 * acc + DigitValue(SubSeq(s, 1, 1)))

(* int(s): ok is FALSE where Python raises ValueError *)
PyInt(s) ==
    LET t == RStrip(LStrip(s))
        signed == Len(t) > 0 /\ SubSeq(t, 1, 1) \in {"+", "-"}
        digits == IF signed THEN SubSeq(t, 2, Len(t)) ELSE t
        negative == signed /\ SubSeq(t, 1, 1) = "-"
    IN  IF WellFormedDigits(digits)
        THEN [ok |-> TRUE,
              value |-> IF negative THEN 0 - DigitsValue(digits, 0)
                        ELSE DigitsValue(digits, 0)]
        ELSE [ok |-> FALSE, value |-> 0]

(* ------------------------------ DataManager ---------------------------- *)
(* 'last_active': None *)
None == -1

(* the default_factory of user_stats *)
DefaultStats == [commands_used |-> 0, last_active |-> None, sessions |-> 0]

GetStats(stats, u) == IF u \in DOMAIN stats THEN stats[u] ELSE DefaultStats

(* DataManager.add_to_cart *)
(* an add_to_cart whose carts all share one dict object *)
add_to_cart_shared_dict(allCarts, user_id, product_id, quantity) ==
    LET cart == IF user_id \in DOMAIN allCarts THEN allCarts[user_id]
                ELSE EmptyDict
        grown == Put(cart, product_id,
                     IF product_id \in DOMAIN cart
                     THEN cart[product_id] + quantity ELSE quantity)
    IN  [u \in (DOMAIN allCarts) \cup {user_id} |-> grown]

add_to_cart(allCarts, user_id, product_id, quantity) ==
    LET cart == IF user_id \in DOMAIN allCarts THEN allCarts[user_id]
                ELSE EmptyDict
    IN  Put(allCarts, user_id,
            IF product_id \in DOMAIN cart
            THEN [cart EXCEPT ![product_id] = @ + quantity]
            ELSE Put(cart, product_id, quantity))

RECURSIVE SumOver(_, _)
SumOver(f, keys) ==
    IF keys = {} THEN 0
    ELSE LET k == CHOOSE x \in keys : TRUE
         IN  f[k] + SumOver(f, keys \ {k})

(* DataManager.get_cart_total *)
get_cart_total(allCarts, user_id) ==
    LET cart == IF user_id \in DOMAIN allCarts THEN allCarts[user_id]
                ELSE EmptyDict
        priced == (DOMAIN cart) \cap (DOMAIN PRODUCTS)
    IN  SumOver([p \in priced |-> PRODUCTS[p].price * cart[p]], priced)

(* ------------------------------- handlers ------------------------------ *)
(* What a handler works on and leaves behind: the DataManager mappings,    *)
(* context.user_data, the calls made on the reply channel, the log lines   *)
(* written, the exception that escaped, and whether the body of the        *)
(* registered function (of an @admin_only function) was entered.  Sends on *)
(* the reply channel succeed.                                              *)
Reply(via, text) == [via |-> via, text |-> text]

LogLine(level, msg) == [level |-> level, msg |-> msg]

NoShown == [total_users |-> 0, active_users |-> 0, active_carts |-> 0,
            total_bookings |-> 0, commands |-> 0, sessions |-> 0]

Answered(st) == [st EXCEPT !.body = TRUE, !.replies = <<Reply("answer", "")>>]

Edited(st, text) ==
    [st EXCEPT !.replies = Append(@, Reply("edit_message_text", text))]

(* main_menu_callback, shop_callback, category_callback, view_cart_callback, *)
(* booking_callback, the quiz, currency, about and contact callbacks:        *)
(* query.answer() and one query.edit_message_text                            *)
view_callback(st, text) == Edited(Answered(st), text)

start_command(st, user_id, t) ==
    LET stats == GetStats(st.user_stats, user_id)
    IN  [st EXCEPT
            !.body = TRUE,
            !.user_stats = Put(@, user_id,
                               [stats EXCEPT !.sessions = @ + 1,
                                             !.last_active = t]),
            !.replies = <<Reply("reply_text", "welcome")>>,
            !.logs = <<LogLine("info", "new user")>>]

add_to_cart_callback(st, user_id, data) ==
    LET a == Answered(st)
        parsed == PyInt(HandlerArg("add_to_cart_callback", data))
    IN  IF ~parsed.ok THEN [a EXCEPT !.raised = "ValueError"]
        ELSE IF parsed.value \notin DOMAIN PRODUCTS
        THEN [a EXCEPT !.replies = Append(@, Reply("reply_text", "not found"))]
        ELSE [a EXCEPT
                !.carts = add_to_cart(@, user_id, parsed.value, 1),
                !.replies = Append(@, Reply("reply_text", "added"))]

(* a checkout that resets the cart before it looks at the total *)
checkout_callback_clears_first(st, user_id) ==
    LET a == Answered(st)
        total == get_cart_total(st.carts, user_id)
    IN  IF total = 0
        THEN [a EXCEPT !.total = total,
                       !.carts = Put(@, user_id, EmptyDict),
                       !.replies = Append(@, Reply("answer_alert", "cart empty"))]
        ELSE [a EXCEPT !.total = total,
                       !.logs = <<LogLine("info", "new order")>>,
                       !.carts = Put(@, user_id, EmptyDict),
                       !.replies = Append(@, Reply("edit_message_text", "order"))]

checkout_callback(st, user_id) ==
    LET a == Answered(st)
        total == get_cart_total(st.carts, user_id)
    IN  IF total = 0
        THEN [a EXCEPT !.total = total,
                       !.replies = Append(@, Reply("answer_alert", "cart empty"))]
        ELSE [a EXCEPT !.total = total,
                       !.logs = <<LogLine("info", "new order")>>,
                       !.carts = Put(@, user_id, EmptyDict),
                       !.replies = Append(@, Reply("edit_message_text", "order"))]

clear_cart_callback(st, user_id) ==
    [Answered(st) EXCEPT
        !.carts = Put(@, user_id, EmptyDict),
        !.replies = Append(@, Reply("edit_message_text", "cart cleared"))]

book_service_callback(st, user_id, data) ==
    LET a == Answered(st)
        parsed == PyInt(HandlerArg("book_service_callback", data))
    IN  IF ~parsed.ok THEN [a EXCEPT !.raised = "ValueError"]
        ELSE IF parsed.value \notin DOMAIN SERVICES
        THEN [a EXCEPT !.raised = "KeyError"]
        ELSE [a EXCEPT
                !.user_data = Put(@, user_id, parsed.value),
                !.replies = Append(@, Reply("edit_message_text", "choose time"))]

book_time_callback(st, user_id, data, t) ==
    LET a == Answered(st)
        time == HandlerArg("book_time_callback", data)
    IN  IF user_id \notin DOMAIN st.user_data \/ st.user_data[user_id] = 0
        THEN Edited(a, "service not chosen")
        ELSE LET service == SERVICES[st.user_data[user_id]]
                 mine == GetList(st.bookings, user_id)
             IN  [a EXCEPT
                    !.logs = <<LogLine("info", "new booking")>>,
                    !.bookings = Put(@, user_id,
                        Append(mine, [service |-> service.name,
                                      time |-> time,
                                      date |-> t \div 86400,
                                      price |-> service.price])),
                    !.replies = Append(@, Reply("edit_message_text",
                                                "booking confirmed"))]

admin_callback(st) ==
    [view_callback(st, "admin panel") EXCEPT !.admin_body = TRUE]

admin_stats_callback(st, t) ==
    LET stats == st.user_stats
        week_ago == t - 7 * 86400
    IN  [view_callback(st, "statistics") EXCEPT
            !.admin_body = TRUE,
            !.shown = [total_users |-> 0,
                       active_users |-> Cardinality(
                           {u \in DOMAIN stats :
                               /\ stats[u].last_active # None
                               /\ stats[u].last_active > week_ago}),
                       active_carts |-> Cardinality(
                           {u \in DOMAIN st.carts : DOMAIN st.carts[u] # {}}),
                       total_bookings |-> SumOver(
                           [u \in DOMAIN st.bookings |-> Len(st.bookings[u])],
                           DOMAIN st.bookings),
                       commands |-> SumOver(
                           [u \in DOMAIN stats |-> stats[u].commands_used],
                           DOMAIN stats),
                       sessions |-> SumOver(
                           [u \in DOMAIN stats |-> stats[u].sessions],
                           DOMAIN stats)]]

(* the function registered under each name *)
Body(callback, st, user_id, data, t) ==
    CASE callback = "start_command" -> start_command(st, user_id, t)
      [] callback = "add_to_cart_callback" ->
            add_to_cart_callback(st, user_id, data)
      [] callback = "checkout_callback" -> checkout_callback(st, user_id)
      [] callback = "clear_cart_callback" -> clear_cart_callback(st, user_id)
      [] callback = "book_service_callback" ->
            book_service_callback(st, user_id, data)
      [] callback = "book_time_callback" ->
            book_time_callback(st, user_id, data, t)
      [] callback = "admin_callback" -> admin_callback(st)
      [] callback = "admin_stats_callback" -> admin_stats_callback(st, t)
      [] OTHER -> view_callback(st, callback)

(* ------------------------------ admin_only ----------------------------- *)
(* variant: the test of get_main_menu_keyboard, "if ADMIN_IDS" *)
AuthorizedIfAnyAdmin(user_id, admin_ids) == admin_ids # {}

(* user_id not in ADMIN_IDS, negated *)
Authorized(user_id, admin_ids) == user_id \in admin_ids

(* the wrapper's refusal: an alert on the callback query, or a reply to    *)
(* the message; nothing else                                               *)
Refused(st, kind) ==
    IF kind = "callback"
    THEN [st EXCEPT !.gate = "rejected",
                    !.replies = <<Reply("answer_alert", "no access")>>]
    ELSE [st EXCEPT !.gate = "rejected",
                    !.replies = <<Reply("reply_text", "no access")>>]

(* admin_only(func).wrapper *)
admin_only(callback, st, user_id, kind, data, t, admin_ids) ==
    IF ~Authorized(user_id, admin_ids)
    THEN Refused(st, kind)
    ELSE Body(callback, [st EXCEPT !.gate = "passed"], user_id, data, t)

(* an error handler that only writes the log line *)
error_handler_log_only(st) ==
    IF st.raised = "" THEN st
    ELSE [st EXCEPT !.logs = Append(@, LogLine("error", "exception"))]

(* error_handler, called for an exception that escaped a handler; the      *)
(* update has an effective chat                                            *)
error_handler(st) ==
    IF st.raised = "" THEN st
    ELSE [st EXCEPT
            !.logs = Append(@, LogLine("error", "exception")),
            !.replies = Append(@, Reply("send_message", "unexpected error"))]

(* ---------------------------- the running bot -------------------------- *)
CallbackData ==
    {"main", "admin", "admin_stats", "checkout", "clear_cart",
     "add_1", "add_x", "book_1", "book_9", "time_10:00"}

Commands == {"start", "help"}

Updates ==
    {[kind |-> "callback", token |-> d] : d \in CallbackData} \cup
    {[kind |-> "command", token |-> c] : c \in Commands}

(* module level: load_dotenv, ADMIN_IDS, rate_limiter = RateLimiter(),     *)
(* data_manager = DataManager()                                            *)
Init ==
    /\ now = 0
    /\ max_requests = DefaultMaxRequests
    /\ time_window = DefaultTimeWindow
    /\ requests = EmptyDict
    /\ history = <<>>
    /\ lastCall = NoCall
    /\ route = NoRoute
    /\ ADMIN_IDS \in SUBSET Users
    /\ DataManagerInit
    /\ user_data = EmptyDict
    /\ dispatched = 0
    /\ reached = [u \in Users |-> [n |-> 0, admin |-> 0, at |-> -1]]
    /\ lastEvent = NoEvent
    /\ AsyncIdle

(* One update from user_id, from selection of the handler to the return of *)
(* the handler or of error_handler.  No handler and no wrapper calls       *)
(* rate_limiter.is_allowed, so RateLimiter.requests is left as it is.      *)
Outcome(user_id, upd, st, t, admin_ids) ==
    LET i == Select(HandlerTable, upd.kind, upd.token)
        callback == CallbackOf(HandlerTable, i)
        ran == IF i = 0 THEN st
               ELSE IF HandlerTable[i].admin_only
                    THEN admin_only(callback, st, user_id, upd.kind,
                                    upd.token, t, admin_ids)
                    ELSE Body(callback, st, user_id, upd.token, t)
    IN  [error_handler(ran) EXCEPT !.callback = callback]

Dispatch(user_id, upd) ==
    /\ dispatched < MaxEvents
    /\ \E st \in {[user_stats |-> user_stats, carts |-> carts,
                   bookings |-> bookings, user_data |-> user_data,
                   replies |-> <<>>, logs |-> <<>>, raised |-> "",
                   gate |-> "none", body |-> FALSE, admin_body |-> FALSE,
                   total |-> None, shown |-> NoShown, callback |-> ""]} :
         \E out \in {Outcome(user_id, upd, st, now, ADMIN_IDS)} :
           /\ user_stats' = out.user_stats
           /\ carts' = out.carts
           /\ bookings' = out.bookings
           /\ user_data' = out.user_data
           /\ reached' =
                IF out.body
                THEN [reached EXCEPT ![user_id] =
                        [n |-> @.n + 1,
                         admin |-> @.admin + (IF out.admin_body THEN 1 ELSE 0),
                         at |-> now]]
                ELSE reached
           /\ lastEvent' = [user |-> user_id, kind |-> upd.kind,
                            token |-> upd.token, at |-> now,
                            callback |-> out.callback, gate |-> out.gate,
                            body |-> out.body, raised |-> out.raised,
                            replies |-> out.replies, logs |-> out.logs,
                            total |-> out.total, shown |-> out.shown]
    /\ dispatched' = dispatched + 1
    /\ UNCHANGED <<now, limiterVars, route, ADMIN_IDS, asyncVars>>

(* the clock advances between updates *)
BotTick ==
    /\ now < MaxClock
    /\ now' = now + 1
    /\ UNCHANGED <<limiterVars, route, botVars>>

Next ==
    \/ BotTick
    \/ \E user_id \in Users, upd \in Updates : Dispatch(user_id, upd)

Spec == Init /\ [][Next]_vars

(* ------------- the operations that keep per-user entries --------------- *)
(* is_allowed, add to cart, clear cart, checkout, service and time         *)
(* selection, /start: every operation that writes an entry keyed by the    *)
(* user id, issued by any user in any order                                *)
FrameUpdates ==
    {[kind |-> "callback", token |-> d] :
        d \in {"add_1", "clear_cart", "checkout", "book_1", "time_10:00"}} \cup
    {[kind |-> "command", token |-> "start"]}

InitFrame ==
    /\ now = 0
    /\ LimiterInit
    /\ route = NoRoute
    /\ BotIdle

FrameCall(u) ==
    /\ Len(history) + dispatched < MaxEvents
    /\ IsAllowed(u)

FrameEvent(u, upd) ==
    /\ Len(history) + dispatched < MaxEvents
    /\ Dispatch(u, upd)

NextFrame ==
    \/ BotTick
    \/ \E u \in Users : FrameCall(u)
    \/ \E u \in Users, upd \in FrameUpdates : FrameEvent(u, upd)

SpecFrame == InitFrame /\ [][NextFrame]_vars

(* ----------------------- the booking conversation ---------------------- *)
(* service selections (a known id, another known id, an unknown id) and    *)
(* time selections, the second with a suffix that contains "time_" again   *)
BookingUpdates ==
    {[kind |-> "callback", token |-> d] :
        d \in {"book_1", "book_2", "book_9", "time_10:00",
               "time_time_10:00"}}

NextBooking ==
    \/ BotTick
    \/ \E user_id \in Users, upd \in BookingUpdates : Dispatch(user_id, upd)

SpecBooking == Init /\ [][NextBooking]_vars

(* ------------- handlers interleaved at their await points -------------- *)
(* A handler is a coroutine: it runs until an await, is suspended there,   *)
(* and other coroutines may run before it is resumed.  pc names the await  *)
(* a coroutine is suspended at: "answer" (await query.answer()), "reply"   *)
(* (await query.message.reply_text), "alert" (await query.answer(...,      *)
(* show_alert=True)), "edit" (await query.edit_message_text), "error"      *)
(* (the exception left the handler), and "done" once it has returned.      *)
(* Processing the updates one at a time is the special case in which each  *)
(* coroutine is resumed up to "done" before the next one is started.       *)
AsyncTokens == {"add_1", "add_3", "checkout"}

Segment(allCarts, pc, total, product, reply) ==
    [carts |-> allCarts, pc |-> pc, total |-> total, product |-> product,
     reply |-> reply]

(* add_to_cart_callback from the await it is suspended at to the next one *)
add_to_cart_segment(pc, allCarts, user_id, data) ==
    IF pc = "answer"
    THEN LET parsed == PyInt(HandlerArg("add_to_cart_callback", data))
         IN  IF ~parsed.ok THEN Segment(allCarts, "error", None, 0, "")
             ELSE IF parsed.value \notin DOMAIN PRODUCTS
             THEN Segment(allCarts, "reply", None, 0, "not found")
             ELSE Segment(add_to_cart(allCarts, user_id, parsed.value, 1),
                          "reply", None, parsed.value, "added")
    ELSE Segment(allCarts, "done", None, 0, "")

(* a checkout that resets the cart after awaiting edit_message_text *)
checkout_segment_clears_after_edit(pc, allCarts, user_id, total) ==
    IF pc = "answer"
    THEN LET t == get_cart_total(allCarts, user_id)
         IN  IF t = 0 THEN Segment(allCarts, "alert", t, 0, "cart empty")
             ELSE Segment(allCarts, "edit", t, 0, "order")
    ELSE IF pc = "edit"
    THEN Segment(Put(allCarts, user_id, EmptyDict), "done", total, 0, "")
    ELSE Segment(allCarts, "done", total, 0, "")

(* checkout_callback from the await it is suspended at to the next one:    *)
(* get_cart_total, the test, the log line and the reset of the cart run    *)
(* without an await between them                                           *)
checkout_segment(pc, allCarts, user_id, total) ==
    IF pc = "answer"
    THEN LET t == get_cart_total(allCarts, user_id)
         IN  IF t = 0 THEN Segment(allCarts, "alert", t, 0, "cart empty")
             ELSE Segment(Put(allCarts, user_id, EmptyDict), "edit", t, 0,
                          "order")
    ELSE Segment(allCarts, "done", total, 0, "")

InitAsync ==
    /\ Init
    /\ ADMIN_IDS = {}

(* an update arrives: its handler is started and runs up to its first      *)
(* await, query.answer()                                                   *)
Arrive(user_id, token) ==
    /\ Len(tasks) < MaxTasks
    /\ tasks' = Append(tasks,
         [user |-> user_id, data |-> token,
          callback |-> CallbackOf(HandlerTable,
                                  Select(HandlerTable, "callback", token)),
          pc |-> "answer", total |-> None])
    /\ UNCHANGED <<now, limiterVars, route, ADMIN_IDS, user_stats, carts,
                   bookings, user_data, dispatched, reached, lastEvent,
                   added, ordered, lastStep>>

(* the event loop resumes coroutine i, which runs to its next await or to  *)
(* its return                                                              *)
Resume(i) ==
    /\ i \in DOMAIN tasks
    /\ tasks[i].pc \notin {"done", "error"}
    /\ \E task \in {tasks[i]} :
       \E seg \in {IF task.callback = "add_to_cart_callback"
                   THEN add_to_cart_segment(task.pc, carts, task.user,
                                            task.data)
                   ELSE checkout_segment(task.pc, carts, task.user,
                                         task.total)} :
         /\ carts' = seg.carts
         /\ tasks' = [tasks EXCEPT ![i] = [task EXCEPT !.pc = seg.pc,
                                                       !.total = seg.total]]
         /\ added' = [added EXCEPT ![task.user] =
                        @ + (IF seg.product = 0 THEN 0
                             ELSE PRODUCTS[seg.product].price)]
         /\ ordered' = [ordered EXCEPT ![task.user] =
                          @ + (IF seg.reply = "order" THEN seg.total ELSE 0)]
         /\ lastStep' = [task |-> i, user |-> task.user,
                         callback |-> task.callback, from |-> task.pc,
                         pc |-> seg.pc, before |-> carts,
                         total |-> seg.total, product |-> seg.product,
                         reply |-> seg.reply]
    /\ UNCHANGED <<now, limiterVars, route, ADMIN_IDS, user_stats, bookings,
                   user_data, dispatched, reached, lastEvent>>

NextAsync ==
    \/ \E user_id \in Users, token \in AsyncTokens : Arrive(user_id, token)
    \/ \E i \in 1..MaxTasks : Resume(i)

SpecAsync == InitAsync /\ [][NextAsync]_vars

(* ------------------- claims about the rate limiter --------------------- *)
CallsOf(u) == SelectSeq(history, LAMBDA c: c.user = u)

(* timestamps of u's accepted calls that are younger than the window at t *)
AcceptedWithin(u, t) ==
    LET h == SelectSeq(history,
                 LAMBDA c: c.user = u /\ c.ok /\ t - c.at < time_window)
    IN  [i \in 1..Len(h) |-> h[i].at]

Ascending(s) == \A i, j \in DOMAIN s : i < j => s[i] <= s[j]

Count(s, x) == Cardinality({i \in DOMAIN s : s[i] = x})

(* C1: once max_requests calls of a user were admitted within a span       *)
(* shorter than time_window, the next call of that user inside the span is *)
(* rejected; a call made after more than time_window seconds without any   *)
(* call of that user is admitted.                                          *)
C1_BurstRejectedThenReadmitted ==
    Len(history) > 0 =>
        LET n == Len(history)
            c == history[n]
            prior == {i \in 1..(n - 1) : history[i].user = c.user}
            inSpan == {i \in prior : history[i].ok
                                      /\ c.at - history[i].at < time_window}
        IN  /\ Cardinality(inSpan) >= max_requests => ~c.ok
            /\ (\A i \in prior : c.at - history[i].at > time_window) => c.ok

C1_Witness ==
    \E u \in Users :
        LET h == CallsOf(u)
            L == max_requests
        IN  /\ Len(h) >= L + 2
            /\ \A i \in 1..L : h[i].ok
            /\ h[L + 1].at - h[1].at < time_window
            /\ ~h[L + 1].ok
            /\ h[L + 2].at - h[L + 1].at > time_window
            /\ h[L + 2].ok

(* C2: the list stored for a user holds exactly the timestamps of that     *)
(* user's accepted calls that were younger than time_window at the user's  *)
(* most recent check, in ascending order, and never more than max_requests *)
(* of them; a user who never called has no list.                           *)
C2_WindowContents ==
    /\ \A u \in Users :
        LET h == CallsOf(u)
        IN  IF h = <<>>
            THEN u \notin DOMAIN requests
            ELSE /\ u \in DOMAIN requests
                 /\ requests[u] = AcceptedWithin(u, h[Len(h)].at)
                 /\ Ascending(requests[u])
                 /\ Len(requests[u]) <= max_requests
    /\ (Len(history) > 0 /\ lastCall.at = now) =>
            /\ requests[lastCall.user] = AcceptedWithin(lastCall.user, now)
            /\ \A i \in DOMAIN requests[lastCall.user] :
                   now - requests[lastCall.user][i] < time_window

C2_Witness ==
    /\ Len(history) > 0
    /\ lastCall.at = now
    /\ LET u == lastCall.user
           accepted == SelectSeq(history, LAMBDA c: c.user = u /\ c.ok)
       IN  /\ Len(requests[u]) = max_requests
           /\ Len(accepted) > Len(requests[u])
           /\ Len(lastCall.kept) >= 1

(* C3, as stated: eviction removes a timestamp iff its age exceeds         *)
(* time_window, so a timestamp of age exactly time_window is retained.     *)
C3_EvictsOnlyOlderThanWindow ==
    Len(history) > 0 =>
        \A t \in Time :
            Count(lastCall.kept, t) =
                IF lastCall.at - t > time_window
                THEN 0 ELSE Count(lastCall.before, t)

(* C3, amended: eviction removes a timestamp iff its age is at least       *)
(* time_window; every timestamp younger than time_window is retained, in   *)
(* its place, and still counts toward the limit.                           *)
C3_EvictsAtOrBeyondWindow ==
    Len(history) > 0 =>
        /\ \A t \in Time :
            Count(lastCall.kept, t) =
                IF lastCall.at - t >= time_window
                THEN 0 ELSE Count(lastCall.before, t)
        /\ Ascending(lastCall.kept)
        /\ lastCall.ok = (Len(lastCall.kept) < max_requests)

C3_Witness ==
    /\ Len(history) > 0
    /\ \E i \in DOMAIN lastCall.before :
           lastCall.at - lastCall.before[i] = time_window
    /\ \E i \in DOMAIN lastCall.before :
           /\ lastCall.at - lastCall.before[i] < time_window
           /\ Count(lastCall.kept, lastCall.before[i]) >= 1

(* C4: a call that finds max_requests or more timestamps after eviction    *)
(* returns false and stores exactly the evicted list; any other call       *)
(* stores the evicted list with the current instant appended and returns   *)
(* true.  So a user whose previous call was rejected is admitted by the    *)
(* first call that finds an accepted timestamp expired.                    *)
C4_RejectRecordsNothing ==
    Len(history) > 0 =>
        LET u == lastCall.user
            h == CallsOf(u)
        IN  /\ IF Len(lastCall.kept) >= max_requests
               THEN ~lastCall.ok /\ requests[u] = lastCall.kept
               ELSE lastCall.ok /\ requests[u] = Append(lastCall.kept, lastCall.at)
            /\ (/\ Len(h) >= 2
                /\ ~h[Len(h) - 1].ok
                /\ Len(lastCall.kept) < Len(lastCall.before)) => lastCall.ok

C4_Witness ==
    /\ Len(history) > 0
    /\ LET h == CallsOf(lastCall.user)
       IN  /\ Len(h) >= 2
           /\ ~h[Len(h) - 1].ok
           /\ Len(lastCall.kept) < Len(lastCall.before)
           /\ Len(lastCall.kept) >= 1
           /\ lastCall.ok

(* ------------------------ claims about routing ------------------------- *)
(* C9: no two registered patterns match the same update, so the handler    *)
(* selected is the same whatever the registration order; an update whose   *)
(* token equals an exact pattern's literal goes to that pattern's handler, *)
(* never to a prefix handler.                                              *)
C9_UniqueRoute ==
    route.done =>
        LET M == Matching(HandlerTable, route.kind, route.token)
            last == IF M = {} THEN 0 ELSE CHOOSE i \in M : \A j \in M : j <= i
        IN  /\ Cardinality(M) <= 1
            /\ route.handler = CallbackOf(HandlerTable, last)
            /\ \A i \in DOMAIN HandlerTable :
                   (/\ HandlerTable[i].kind = route.kind
                    /\ HandlerTable[i].end
                    /\ HandlerTable[i].cls = {}
                    /\ route.token = HandlerTable[i].lit)
                   => route.handler = HandlerTable[i].callback

C9_Witness ==
    /\ route.done
    /\ route.kind = "callback"
    /\ route.token = "booking"
    /\ route.handler = "booking_callback"
    /\ StartsWith(route.token, "book")

(* C10: an update whose token starts with a registered prefix goes to the  *)
(* prefix handler, and the argument the handler takes from the token is    *)
(* the token with that one leading prefix removed.                         *)
C10_PrefixArgIsSuffix ==
    (route.done /\ route.kind = "callback") =>
        \A i \in DOMAIN HandlerTable :
            LET e == HandlerTable[i]
            IN  (e.kind = "callback" /\ ~e.end /\ StartsWith(route.token, e.lit))
                => /\ route.handler = e.callback
                   /\ route.arg = SubSeq(route.token, Len(e.lit) + 1,
                                         Len(route.token))

(* ------------------------ claims about the bot ------------------------- *)
CommandsUsed(u) ==
    IF u \in DOMAIN user_stats THEN user_stats[u].commands_used ELSE 0

LastActive(u) ==
    IF u \in DOMAIN user_stats THEN user_stats[u].last_active ELSE None

(* C5: a handler body runs only after the rate-limit check admitted the    *)
(* update, so the check has recorded the instant of the update as the last *)
(* timestamp of the user's window; an update refused by the check gets a   *)
(* throttling notice and no handler body.                                  *)
C5_RateCheckedBeforeHandler ==
    lastEvent.body =>
        /\ lastEvent.user \in DOMAIN requests
        /\ Len(requests[lastEvent.user]) >= 1
        /\ requests[lastEvent.user][Len(requests[lastEvent.user])] = lastEvent.at
        /\ Len(requests[lastEvent.user]) <= max_requests

(* C6: the body of an @admin_only handler never runs for a user who is not *)
(* in ADMIN_IDS: the count of admin bodies run stays 0 for such a user.    *)
C6_AdminBodyOnlyForAdmins ==
    /\ \A u \in Users \ ADMIN_IDS : reached[u].admin = 0
    /\ (lastEvent.callback \in {"admin_callback", "admin_stats_callback"}
        /\ lastEvent.user \notin ADMIN_IDS) => ~lastEvent.body

C6_Witness ==
    /\ lastEvent.callback = "admin_stats_callback"
    /\ lastEvent.user \notin ADMIN_IDS
    /\ lastEvent.gate = "rejected"
    /\ \E a \in ADMIN_IDS : reached[a].admin >= 1

(* C7: an update the admin gate rejects is answered on the channel it came *)
(* in on (an alert on the callback query, a reply to a command message)    *)
(* and is logged as an unauthorized attempt.                               *)
C7_RejectionNotifiedAndLogged ==
    lastEvent.gate = "rejected" =>
        /\ lastEvent.replies =
              <<Reply(IF lastEvent.kind = "callback" THEN "answer_alert"
                      ELSE "reply_text", "no access")>>
        /\ Len(lastEvent.logs) >= 1

(* C8: commands_used of a user is the number of that user's updates that   *)
(* reached a handler body, and last_active is the instant of the latest.   *)
C8_UsageCounted ==
    \A u \in Users :
        /\ CommandsUsed(u) = reached[u].n
        /\ reached[u].n > 0 => LastActive(u) = reached[u].at

(* ------------------- claims about carts and bookings ------------------- *)
CartIsEmpty(allCarts, u) == u \notin DOMAIN allCarts \/ allCarts[u] = EmptyDict

(* C11: a checkout by a user whose cart is empty, or who has no cart entry *)
(* at all, yields the total 0, answers that the cart is empty, and leaves  *)
(* carts (the set of user ids with an entry included), bookings and        *)
(* user_stats exactly as they were.                                        *)
C11_EmptyCheckoutChangesNothing ==
    [][(/\ dispatched' = dispatched + 1
        /\ lastEvent'.callback = "checkout_callback"
        /\ CartIsEmpty(carts, lastEvent'.user))
       => /\ lastEvent'.total = 0
          /\ lastEvent'.replies = <<Reply("answer", ""),
                                    Reply("answer_alert", "cart empty")>>
          /\ lastEvent'.raised = ""
          /\ carts' = carts
          /\ DOMAIN carts' = DOMAIN carts
          /\ bookings' = bookings
          /\ user_stats' = user_stats]_vars

(* an empty checkout by a user without a cart entry, while another user    *)
(* has a filled cart                                                       *)
C11_Witness ==
    /\ lastEvent.callback = "checkout_callback"
    /\ lastEvent.total = 0
    /\ lastEvent.user \notin DOMAIN carts
    /\ \E v \in DOMAIN carts : carts[v] # EmptyDict

(* the entry of v is the same in d and e: present in both with one value,  *)
(* or absent from both                                                     *)
SameEntry(d, e, v) ==
    /\ (v \in DOMAIN d) = (v \in DOMAIN e)
    /\ v \in DOMAIN d => d[v] = e[v]

(* C12: an operation triggered by user u leaves the rate window, the cart, *)
(* the booking list and the statistics entry of every other user id        *)
(* exactly as they were, in every sequence of operations by any users.     *)
C12_OtherUsersUntouched ==
    [][\A u, v \in Users :
         (/\ u # v
          /\ \/ history' # history /\ lastCall'.user = u
             \/ dispatched' # dispatched /\ lastEvent'.user = u)
         => /\ SameEntry(requests, requests', v)
            /\ SameEntry(carts, carts', v)
            /\ SameEntry(bookings, bookings', v)
            /\ SameEntry(user_stats, user_stats', v)]_vars

(* a user adds to the cart while the other user holds a rate window and a  *)
(* filled cart                                                             *)
C12_Witness ==
    \E u, v \in Users :
        /\ u # v
        /\ lastEvent.user = u
        /\ lastEvent.callback = "add_to_cart_callback"
        /\ u \in DOMAIN carts /\ carts[u] # EmptyDict
        /\ v \in DOMAIN carts /\ carts[v] # EmptyDict
        /\ v \in DOMAIN requests /\ requests[v] # <<>>

(* ------------------------ claims about errors -------------------------- *)
(* C13: an exception raised by a handler (an add_ token with a non-numeric *)
(* suffix, a book_ token with an unknown service id) is logged at error    *)
(* level and answered with the generic apology in the originating chat;    *)
(* the update after it, from any user, is processed as usual: it goes to  *)
(* the handler registered for it, which answers, and an add_1 puts one     *)
(* more unit of product 1 in the cart.                                     *)
C13_HandlerErrorsAreContained ==
    [][dispatched' = dispatched + 1 =>
        /\ lastEvent'.token \in {"add_x", "book_9"} => lastEvent'.raised # ""
        /\ lastEvent'.raised # "" =>
              /\ lastEvent'.logs = <<LogLine("error", "exception")>>
              /\ lastEvent'.replies =
                    <<Reply("answer", ""),
                      Reply("send_message", "unexpected error")>>
        /\ lastEvent.raised # "" =>
              /\ lastEvent'.callback =
                    CallbackOf(HandlerTable,
                               Select(HandlerTable, lastEvent'.kind,
                                      lastEvent'.token))
              /\ lastEvent'.callback # "" => lastEvent'.replies # <<>>
              /\ lastEvent'.token = "add_1" =>
                    get_cart_total(carts', lastEvent'.user) =
                      get_cart_total(carts, lastEvent'.user)
                        + PRODUCTS[1].price]_vars

(* an update was answered with the apology after a KeyError, with a filled *)
(* cart kept, and further updates can be processed                         *)
C13_Witness ==
    /\ lastEvent.raised = "KeyError"
    /\ lastEvent.replies[Len(lastEvent.replies)].via = "send_message"
    /\ \E u \in DOMAIN carts : carts[u] # EmptyDict
    /\ dispatched < MaxEvents

(* --------------------- claims about interleavings ---------------------- *)
Quantity(allCarts, u, p) ==
    IF u \in DOMAIN allCarts /\ p \in DOMAIN allCarts[u]
    THEN allCarts[u][p] ELSE 0

(* C14: however the add-to-cart and checkout handlers of a user interleave *)
(* at their await points, an add raises the quantity of its product by     *)
(* exactly one and changes no other quantity; a checkout that reports an   *)
(* order reports the total of exactly the cart contents it replaces by the *)
(* empty cart; and the price of everything a user ever added equals the    *)
(* totals reported to that user plus the value still in the cart.          *)
C14_NoLostCartUpdate ==
    /\ \A u \in Users :
          added[u] = ordered[u] + get_cart_total(carts, u)
    /\ lastStep.product # 0 =>
          \A u \in Users, p \in DOMAIN PRODUCTS :
              Quantity(carts, u, p) =
                Quantity(lastStep.before, u, p)
                  + (IF u = lastStep.user /\ p = lastStep.product
                     THEN 1 ELSE 0)
    /\ lastStep.reply = "order" =>
          /\ lastStep.total = get_cart_total(lastStep.before, lastStep.user)
          /\ lastStep.total > 0
          /\ carts[lastStep.user] = EmptyDict
    /\ lastStep.reply = "cart empty" =>
          /\ get_cart_total(lastStep.before, lastStep.user) = 0
          /\ carts = lastStep.before

(* an add of a user completes while a checkout of the same user, which has *)
(* reported its order, is still suspended in edit_message_text             *)
C14_Witness ==
    \E i, k \in DOMAIN tasks :
        /\ i < k
        /\ tasks[i].user = tasks[k].user
        /\ tasks[i].callback = "checkout_callback"
        /\ tasks[i].pc = "edit"
        /\ tasks[i].total > 0
        /\ lastStep.task = k
        /\ lastStep.product # 0
        /\ get_cart_total(carts, tasks[k].user) > 0

(* ------------------------ claims about bookings ------------------------ *)
(* what follows the leading prefix of a token *)
Suffix(token, prefix) == SubSeq(token, Len(prefix) + 1, Len(token))

(* C15: only a time_ update of a user who selected a known service before  *)
(* appends to bookings, and only to that user's list; a time_ update with  *)
(* no earlier selection appends nothing and answers with the error text;   *)
(* an accepted time_ update appends exactly one record with the name and   *)
(* price of the service selected last and the time chosen in the token,    *)
(* after the earlier records, which stay as they were.  The session holds  *)
(* the id of the last book_ update that named a known service.             *)
C15_BookingFollowsSelection ==
    [][dispatched' = dispatched + 1 =>
        LET u == lastEvent'.user
            token == lastEvent'.token
            selected == PyInt(Suffix(token, "book_"))
        IN  /\ \A v \in Users \ {u} : SameEntry(bookings, bookings', v)
            /\ IF StartsWith(token, "book_") /\ selected.ok
                  /\ selected.value \in DOMAIN SERVICES
               THEN user_data' = Put(user_data, u, selected.value)
               ELSE user_data' = user_data
            /\ IF StartsWith(token, "time_") /\ u \in DOMAIN user_data
               THEN bookings' = Put(bookings, u,
                        Append(GetList(bookings, u),
                               [service |-> SERVICES[user_data[u]].name,
                                time |-> Suffix(token, "time_"),
                                date |-> now \div 86400,
                                price |-> SERVICES[user_data[u]].price]))
               ELSE /\ bookings' = bookings
                    /\ StartsWith(token, "time_") =>
                          lastEvent'.replies =
                            <<Reply("answer", ""),
                              Reply("edit_message_text",
                                    "service not chosen")>>]_vars

====
